---- MODULE Spec2Model ----
(***************************************************************************)
(* Concierge chat widget of cb-future-site: the ConciergeCard component    *)
(* (handleSend, streamConciergeAPI, callConciergeAPI,                      *)
(* extractDeltaFromSSELine) as a state machine.                            *)
(*                                                                         *)
(* Text is a sequence of tokens.  A token is a TLA+ string standing for a  *)
(* run of characters that the code never looks inside (a JSON record, a    *)
(* word) or for a single character the code does look at (" ", "\r",       *)
(* "\n").  The JavaScript string "" is the empty sequence.                 *)
(* An optional value (T | undefined | null) is a set with zero or one      *)
(* element.                                                                *)
(*                                                                         *)
(* The chat logic follows the snapshot with extractDeltaFromSSELine and    *)
(* the grounded toggle; handleSend and callConciergeAPI of src/App.tsx     *)
(* have the same control flow.                                             *)
(*                                                                         *)
(* handleSend reads input and loading from the render it was created in.   *)
(* Every state update made in a click or key handler is rendered before    *)
(* the next user event is dispatched, so those two values are the current  *)
(* ones whenever handleSend is called.  The `messages` it reads after its  *)
(* awaits is still the value of that render: messagesSeen.                 *)
(***************************************************************************)
EXTENDS Integers, Sequences, FiniteSets, TLC

VARIABLES
    input,        \* useState input
    messages,     \* useState messages (the transcript)
    loading,      \* useState loading (the in-flight flag)
    pc,           \* where the running handleSend is suspended ("idle": none)
    text,         \* handleSend: const text
    botId,        \* handleSend: const botId
    messagesSeen, \* handleSend: the `messages` value its closure captured
    gotDelta,     \* handleSend: let gotDelta
    buffer,       \* streamConciergeAPI: let buffer
    final,        \* streamConciergeAPI: let final
    reads,        \* chunks read from the body so far in this session
    wire,         \* the body text received so far in this session
    lines,        \* every line handed to extractDeltaFromSSELine so far, in order
    res,          \* streamConciergeAPI: the response of the streaming fetch
    result,       \* handleSend: const result (the StreamOutcome), if returned
    thrown,       \* the error streamConciergeAPI threw, if it threw
    via,          \* which call site of callConciergeAPI is running
    sec,          \* how the callConciergeAPI request went, and the document it got
    secResult,    \* what callConciergeAPI returned, once it has returned
    secThrown,    \* what callConciergeAPI threw, if an error left it
    requests,     \* every fetch issued, in order
    nextId,       \* crypto.randomUUID: the next unused id
    started,      \* number of exchanges started
    cbLog,        \* the deltas passed to onDelta in this exchange, in order
    lastCall,     \* what the latest handleSend call did
    grounded,     \* useState grounded (the docs-only box)
    groundedSeen, \* handleSend: the `grounded` value its closure captured
    beReq,        \* onRequest: the request (and env) being or last handled
    bePc,         \* where the running onRequest is suspended ("idle": none)
    beUp,         \* onRequest: the upstream call it made and how that went
    beOut         \* how the last onRequest ended: its Response, or an error

(* The state of the chat component *)
clientVars == << input, messages, loading, pc, text, botId, messagesSeen,
                 gotDelta, buffer, final, reads, wire, res, result, thrown, via,
                 sec, secResult, secThrown, requests, nextId, started, cbLog,
                 lastCall, lines,
                 grounded, groundedSeen >>

(* The state of the proxy function *)
backendVars == << beReq, bePc, beUp, beOut >>

vars == << clientVars, backendVars >>

----------------------------------------------------------------------------
(* Bounds *)

MaxExchanges == 2

MaxChunks == 2

----------------------------------------------------------------------------
(* Tokens *)

NL == "\n"

CR == "\r"

SP == " "

DataPrefix == "data:"

DoneToken == "[DONE]"

Whitespace == {SP, CR, NL, "\t"}

None == {}

Some(x) == {x}

TheValue(opt) == CHOOSE x \in opt : TRUE

----------------------------------------------------------------------------
(* String helpers: String.prototype.trim, String.prototype.split(/\r?\n/) *)

RECURSIVE TrimLeft(_)
TrimLeft(s) ==
    IF s # <<>> /\ Head(s) \in Whitespace THEN TrimLeft(Tail(s)) ELSE s

RECURSIVE TrimRight(_)
TrimRight(s) ==
    IF s # <<>> /\ s[Len(s)] \in Whitespace
    THEN TrimRight(SubSeq(s, 1, Len(s) - 1))
    ELSE s

NoTrim(s) == s

Trim(s) == TrimRight(TrimLeft(s))

(* buffer.split(/\r?\n/): the pieces between terminators; "\r\n" is one     *)
(* terminator, a "\r" not followed by "\n" stays in its piece.             *)
RECURSIVE SplitFrom(_, _, _)
SplitFrom(s, i, cur) ==
    IF i > Len(s) THEN << cur >>
    ELSE IF s[i] = NL THEN << cur >> \o SplitFrom(s, i + 1, <<>>)
    ELSE IF s[i] = CR /\ i < Len(s) /\ s[i + 1] = NL
         THEN << cur >> \o SplitFrom(s, i + 2, <<>>)
    ELSE SplitFrom(s, i + 1, Append(cur, s[i]))

SplitLines(s) == SplitFrom(s, 1, <<>>)

DropPartial(pieces) == <<>>

(* lines.pop() || "" *)
LastPiece(pieces) == pieces[Len(pieces)]

AllPieces(pieces) == pieces

AllButLast(pieces) == SubSeq(pieces, 1, Len(pieces) - 1)

NoText(ss) == <<>>

RECURSIVE Concat(_)
Concat(ss) == IF ss = <<>> THEN <<>> ELSE Head(ss) \o Concat(Tail(ss))

----------------------------------------------------------------------------
(* JSON.parse on the payload tokens of the wire micro-format.  A payload   *)
(* parses iff it is exactly one of these record tokens; the parsed record  *)
(* has an optional string field delta and an optional string field text.   *)

JDeltaRiyadh == "{\"delta\":\"Riyadh \"}"

JDeltaHub == "{\"delta\":\"is a hub.\"}"

JTextT == "{\"text\":\"T\"}"

JDeltaEmpty == "{\"delta\":\"\"}"

JBoth == "{\"delta\":\"D\",\"text\":\"T\"}"

JSourcesOnly == "{\"sources\":[\"doc1.pdf\"]}"

JDeltaNumber == "{\"delta\":5,\"text\":\"T2\"}"

JsonTokens == {JDeltaRiyadh, JDeltaHub, JTextT, JDeltaEmpty, JBoth, JSourcesOnly,
               JDeltaNumber}

JsonParse(tok) ==
    CASE tok = JDeltaRiyadh -> [delta |-> Some(<< "Riyadh " >>), text |-> None]
      [] tok = JDeltaHub    -> [delta |-> Some(<< "is a hub." >>), text |-> None]
      [] tok = JTextT       -> [delta |-> None, text |-> Some(<< "T" >>)]
      [] tok = JDeltaEmpty  -> [delta |-> Some(<<>>), text |-> None]
      [] tok = JBoth        -> [delta |-> Some(<< "D" >>), text |-> Some(<< "T" >>)]
      [] tok = JDeltaNumber -> [delta |-> None, text |-> Some(<< "T2" >>)]
      [] OTHER              -> [delta |-> None, text |-> None]

Parses(payload) == Len(payload) = 1 /\ payload[1] \in JsonTokens

----------------------------------------------------------------------------
(* extractDeltaFromSSELine: a text delta, or null (None) *)

IsDataLine(line) == line # <<>> /\ line[1] = DataPrefix

(* line.replace(/^data:\s?/i, "").trim() *)
Payload(line) ==
    LET rest == Tail(line)
        cut  == IF rest # <<>> /\ Head(rest) \in Whitespace THEN Tail(rest) ELSE rest
    IN  Trim(cut)

extractForwardingRaw(line) ==
    IF line = <<>> THEN None
    ELSE LET payload == IF IsDataLine(line) THEN Payload(line) ELSE line IN
         IF Parses(payload)
         THEN LET evt == JsonParse(payload[1]) IN
              IF evt.delta # None THEN evt.delta
              ELSE IF evt.text # None THEN evt.text
              ELSE None
         ELSE Some(payload)

TextFirst(evt) ==
    IF evt.text # None THEN evt.text
    ELSE IF evt.delta # None THEN evt.delta
    ELSE None

(* if (typeof evt?.delta === "string") return evt.delta;
   if (typeof evt?.text === "string") return evt.text;
   return null; *)
FieldOf(evt) ==
    IF evt.delta # None THEN evt.delta
    ELSE IF evt.text # None THEN evt.text
    ELSE None

extractDeltaFromSSELine(line) ==
    IF ~IsDataLine(line) THEN None
    ELSE LET payload == Payload(line) IN
         IF payload = <<>> \/ payload = << DoneToken >> THEN None
         ELSE IF Parses(payload)
              THEN FieldOf(JsonParse(payload[1]))
              ELSE None

(* `if (delta)`: not null and not the empty string *)
Truthy(opt) == opt # None /\ TheValue(opt) # <<>>

(* The deltas the loop `for (const raw of lines)` hands to onDelta, in order *)
RECURSIVE DeltasOf(_)
DeltasOf(raws) ==
    IF raws = <<>> THEN <<>>
    ELSE LET d == extractDeltaFromSSELine(Head(raws)) IN
         (IF Truthy(d) THEN << TheValue(d) >> ELSE <<>>) \o DeltasOf(Tail(raws))

----------------------------------------------------------------------------
(* setMessages updaters *)

Msg(id, role, content) ==
    [id |-> id, role |-> role, content |-> content, sources |-> None]

HasId(m, id) == \E i \in 1..Len(m) : m[i].id = id

(* messages.find((m) => m.id === id): the first match, or undefined *)
Find(m, id) ==
    IF HasId(m, id)
    THEN Some(m[CHOOSE i \in 1..Len(m) :
                  m[i].id = id /\ \A j \in 1..(i - 1) : m[j].id # id])
    ELSE None

PrependContent(m, id, delta) ==
    [i \in 1..Len(m) |->
        IF m[i].id = id THEN [m[i] EXCEPT !.content = delta \o @] ELSE m[i]]

(* m.map((msg) => msg.id === botId ? {...msg, content: msg.content + delta} : msg) *)
AppendContent(m, id, delta) ==
    [i \in 1..Len(m) |->
        IF m[i].id = id THEN [m[i] EXCEPT !.content = @ \o delta] ELSE m[i]]

RECURSIVE AppendAll(_, _, _)
AppendAll(m, id, deltas) ==
    IF deltas = <<>> THEN m
    ELSE AppendAll(AppendContent(m, id, Head(deltas)), id, Tail(deltas))

(* m.map((msg) => msg.id === botId ? {...msg, content: c} : msg) *)
SetContent(m, id, c) ==
    [i \in 1..Len(m) |->
        IF m[i].id = id THEN [m[i] EXCEPT !.content = c] ELSE m[i]]

SetSourcesEverywhere(m, id, s) ==
    [i \in 1..Len(m) |-> [m[i] EXCEPT !.sources = s]]

(* m.map((msg) => msg.id === botId ? {...msg, sources: s} : msg) *)
SetSources(m, id, s) ==
    [i \in 1..Len(m) |->
        IF m[i].id = id THEN [m[i] EXCEPT !.sources = s] ELSE m[i]]

SetReplyFiltering(m, id, reply, s) ==
    LET Matches(msg) == msg.id = id
        kept == SelectSeq(m, Matches)
    IN  [i \in 1..Len(kept) |-> [kept[i] EXCEPT !.content = reply, !.sources = s]]

(* m.map((msg) => msg.id === botId ? {...msg, content: reply, sources} : msg) *)
SetReply(m, id, reply, s) ==
    [i \in 1..Len(m) |->
        IF m[i].id = id THEN [m[i] EXCEPT !.content = reply, !.sources = s] ELSE m[i]]

----------------------------------------------------------------------------
(* The environment: what the user types and what the network answers *)

Prompt == "Tell me about Riyadh"

InputSet == { <<>>, << SP >>, << SP, Prompt, SP >> }

EventStream == "text/event-stream; charset=utf-8"

StreamingKinds == { EventStream, "text/plain", "application/x-ndjson" }

JsonKinds == { "application/json", "" }

(* ct.includes("text/event-stream") || ct.includes("text/plain") ||
   ct.includes("application/x-ndjson") *)
IsStreamingKind(ct) == ct \in StreamingKinds

FailStatuses == { 502 }

OkStatuses == { 200 }

(* The responses the endpoint gives: a success with any content kind, or   *)
(* the proxy's JSON error document with a failure status                   *)
Responses ==
    { << st, ct >> : st \in OkStatuses, ct \in StreamingKinds \cup JsonKinds }
    \cup { << st, "application/json" >> : st \in FailStatuses }

ResOkAlways(status) == TRUE

(* Response.ok *)
ResOk(status) == status \in 200..299

(* Chunks a streaming body can deliver: a complete delta line; a delta    *)
(* line followed by the end marker line; a control line ended by "\r\n"    *)
(* followed by the beginning of a data line that has no terminator yet     *)
ChunkSet ==
    { << DataPrefix, SP, JDeltaRiyadh, NL >>,
      << DataPrefix, SP, JDeltaHub, NL, DataPrefix, SP, DoneToken, NL >>,
      << "event: ping", CR, NL, DataPrefix, JTextT >> }

(* JSON documents a non-streaming response body can hold *)
Doc(reply, sources) == [reply |-> reply, sources |-> sources]

StreamJsonBodies ==
    { Doc(Some(<< "Hello" >>), Some(<< "doc1.pdf" >>)),
      Doc(Some(<< "Hello" >>), None),
      Doc(Some(<<>>), Some(<<>>)),
      Doc(None, None) }

FallbackJsonBodies ==
    { Doc(Some(<< "Fallback answer" >>), None),
      Doc(Some(<< "Fallback answer" >>), Some(<< "doc2.pdf" >>)),
      Doc(Some(<<>>), None),
      Doc(None, None) }

(* new Error(`Proxy error: ${res.status}`) *)
ProxyError(status) == << "Proxy error: ", ToString(status) >>

NetworkError == << "TypeError: Failed to fetch" >>

JsonError == << "SyntaxError: Unexpected token" >>

ErrorTexts ==
    { NetworkError, JsonError } \cup { ProxyError(st) : st \in FailStatuses }

(* The fixed advisory reply of callConciergeAPI's catch *)
OfflineMessage == << "(demo) Ready to assist. Connect the backend for real replies." >>

NoSec == [outcome |-> "none", doc |-> None]

Sec(outcome, doc) == [outcome |-> outcome, doc |-> doc]

(* The response of the streaming fetch, as far as the code reads it: its    *)
(* status and whether its Content-Type is one of the streaming kinds       *)
NoRes == [status |-> 0, streaming |-> FALSE, received |-> FALSE]

Res(status, ct) ==
    [status |-> status, streaming |-> IsStreamingKind(ct), received |-> TRUE]

(* JSON.stringify({ message: prompt, stream: true, strict: grounded }) *)
StreamRequest(prompt, strict) ==
    [message |-> prompt, stream |-> TRUE, strict |-> strict]

StreamingSecondary(prompt, strict) ==
    [message |-> prompt, stream |-> TRUE, strict |-> strict]

(* JSON.stringify({ message: prompt, strict: grounded }) *)
PlainRequest(prompt, strict) ==
    [message |-> prompt, stream |-> FALSE, strict |-> strict]


----------------------------------------------------------------------------
(* functions/api/concierge.ts: the requests the proxy receives and what    *)
(* the upstream completion API answers                                     *)

Methods == { "GET", "POST", "PUT" }

(* OPENAI_API_KEY.trim().length < 20 *)
MinKeyLength == 20

(* env.OPENAI_API_KEY, by the length of its trimmed text (None: not set) *)
Keys == { None, Some(MinKeyLength - 1), Some(MinKeyLength) }

(* A JSON request body; a message that is absent or no string is None *)
BodyDoc(message, stream, strict) ==
    [message |-> message, stream |-> stream, strict |-> strict]

(* request.json(): None when the body is not JSON *)
RequestBodies ==
    { None } \cup
    { Some(BodyDoc(m, st, g)) :
        m \in { None, Some(<< SP >>), Some(<< SP, Prompt, SP >>) },
        st \in BOOLEAN, g \in BOOLEAN }

(* The connection a request arrives on: none when the sender is not the    *)
(* component                                                               *)
NoConn == << 0, 0 >>

BackendRequests ==
    [method : Methods, debug : BOOLEAN, key : Keys, store : BOOLEAN,
     body : RequestBodies, conn : { NoConn }]

NoRequest ==
    [method |-> "", debug |-> FALSE, key |-> None, store |-> FALSE,
     body |-> None, conn |-> NoConn]

(* Statuses of the upstream API's answers *)
UpstreamStatuses == { 200, 429, 500 }

UpstreamOkAlways(status) == TRUE

(* upstream.ok *)
UpstreamOk(status) == status \in 200..299

(* One search result: r.document.filename, r.document.display_name *)
Document(filename, display_name) ==
    [filename |-> filename, display_name |-> display_name]

(* One item of data.output: its type and tool_name, content[0].text, and   *)
(* content[0].results ?? results                                           *)
Item(type, tool_name, itemText, results) ==
    [type |-> type, tool_name |-> tool_name, text |-> itemText,
     results |-> results]

UpstreamDoc(output_text, output) ==
    [output_text |-> output_text, output |-> output]

MessageItem == Item("message", "", Some(<< "Nested answer" >>), <<>>)

SearchItem ==
    Item("tool_result", "file_search", None,
         << Document(Some("a.pdf"), None), Document(None, None),
            Document(Some(""), Some("B notes")) >>)

UnnamedSearchItem ==
    Item("tool_result", "file_search", None, << Document(None, None) >>)

OtherToolItem ==
    Item("tool_result", "web_search", None, << Document(Some("w.html"), None) >>)

(* Documents upstream.json() can resolve to *)
UpstreamDocs ==
    { UpstreamDoc(Some(<< "Answer" >>), <<>>),
      UpstreamDoc(None, << MessageItem >>),
      UpstreamDoc(None, <<>>),
      UpstreamDoc(Some(<< "Answer" >>), << SearchItem, MessageItem >>),
      UpstreamDoc(Some(<< "Answer" >>), << UnnamedSearchItem >>),
      UpstreamDoc(Some(<<>>), << OtherToolItem >>) }

(* The call to the upstream API: the payload sent and how the call went *)
UpstreamCall(payload, outcome, status, data) ==
    [payload |-> payload, outcome |-> outcome, status |-> status, data |-> data]

NoUpstream == UpstreamCall(None, "none", 0, None)

(* How onRequest ended: with a Response (kind "response"), or with an      *)
(* error that left it (kind "thrown")                                      *)
NoFields ==
    [ok |-> None, error |-> None, reply |-> None, sources |-> None,
     detail |-> None]

Outcome(kind, status, ct, piped, body) ==
    [kind |-> kind, status |-> status, ct |-> ct, piped |-> piped, body |-> body]

NoOutcome == Outcome("none", 0, "", FALSE, NoFields)

HandlerThrew == Outcome("thrown", 0, "", FALSE, NoFields)

(* function json(data, status = 200) *)
json(data, status) == Outcome("response", status, "application/json", FALSE, data)

(* new Response(upstream.body, { status: 200,
     headers: { "Content-Type": "text/event-stream; charset=utf-8", ... } }) *)
PipedResponse == Outcome("response", 200, EventStream, TRUE, NoFields)

(* { ok: true, route: "/api/concierge", ... } *)
HealthBody == [NoFields EXCEPT !.ok = Some(TRUE)]

ErrorBody(error) == [NoFields EXCEPT !.error = Some(error)]

(* await upstream.text() of an answer that is not ok *)
UpstreamErrorText == << "{\"error\":{\"message\":\"Rate limit reached\"}}" >>

(* { error: "OpenAI upstream error", status: upstream.status, detail } *)
UpstreamErrorBody(detail) ==
    [ErrorBody("OpenAI upstream error") EXCEPT !.detail = Some(detail)]

SourcesAlways(sources) == Some(sources)

(* ...(sources.length ? { sources } : {}) *)
SourcesField(sources) == IF sources # <<>> THEN Some(sources) ELSE None

(* { reply, ...(sources.length ? { sources } : {}) } *)
ReplyBody(reply, sources) ==
    [NoFields EXCEPT !.reply = Some(reply), !.sources = SourcesField(sources)]

KeyAbsent(key) == key = None

(* !env.OPENAI_API_KEY || env.OPENAI_API_KEY.trim().length < 20 *)
KeyMissing(key) == key = None \/ TheValue(key) < MinKeyLength

(* typeof body?.message === "string" ? body.message.trim() : "" *)
MessageOf(body) ==
    IF body.message # None THEN Trim(TheValue(body.message)) ELSE <<>>

(* The payload sent upstream: payload.input's user content, payload.tools  *)
(* (file_search when VECTOR_STORE_ID is set), payload.tool_choice, stream  *)
UpstreamPayload(req) ==
    LET body == TheValue(req.body) IN
    [message  |-> MessageOf(body),
     strict   |-> body.strict,
     tools    |-> req.store,
     required |-> req.store /\ body.strict,
     stream   |-> body.stream]

(* data?.output_text ?? data?.output?.[0]?.content?.[0]?.text ?? "(no content)" *)
ReplyOf(data) ==
    IF data.output_text # None THEN TheValue(data.output_text)
    ELSE IF data.output # <<>> /\ data.output[1].text # None
         THEN TheValue(data.output[1].text)
         ELSE << "(no content)" >>

(* r?.document?.filename || r?.document?.display_name; if (name) push *)
NamesOf(doc) ==
    IF doc.filename # None /\ TheValue(doc.filename) # ""
    THEN << TheValue(doc.filename) >>
    ELSE IF doc.display_name # None /\ TheValue(doc.display_name) # ""
         THEN << TheValue(doc.display_name) >>
         ELSE <<>>

RECURSIVE NamesOfAll(_)
NamesOfAll(results) ==
    IF results = <<>> THEN <<>>
    ELSE NamesOf(Head(results)) \o NamesOfAll(Tail(results))

(* item?.type === "tool_result" && item?.tool_name === "file_search" *)
IsFileSearch(item) == item.type = "tool_result" /\ item.tool_name = "file_search"

RECURSIVE SourcesOf(_)
SourcesOf(items) ==
    IF items = <<>> THEN <<>>
    ELSE (IF IsFileSearch(Head(items)) THEN NamesOfAll(Head(items).results)
          ELSE <<>>) \o SourcesOf(Tail(items))

----------------------------------------------------------------------------
(* Initial state: the component after its first render *)

Init ==
    /\ input = <<>>
    /\ messages = <<>>
    /\ loading = FALSE
    /\ pc = "idle"
    /\ text = <<>>
    /\ botId = 0
    /\ messagesSeen = <<>>
    /\ gotDelta = FALSE
    /\ buffer = <<>>
    /\ final = <<>>
    /\ reads = 0
    /\ wire = <<>>
    /\ res = NoRes
    /\ result = None
    /\ thrown = None
    /\ via = "none"
    /\ sec = NoSec
    /\ secResult = None
    /\ secThrown = None
    /\ requests = <<>>
    /\ nextId = 1
    /\ started = 0
    /\ cbLog = <<>>
    /\ lastCall = "none"
    /\ lines = <<>>
    /\ grounded = TRUE
    /\ groundedSeen = TRUE
    /\ beReq = NoRequest
    /\ bePc = "idle"
    /\ beUp = NoUpstream
    /\ beOut = NoOutcome

(* The streaming locals, the history of the exchange and the flags that    *)
(* only the running handler touches                                        *)
sessionVars == << buffer, final, reads, wire, lines >>

handlerVars == << text, botId, messagesSeen, nextId, started, groundedSeen >>

(* Microtask continuations run before any further user event *)
UserCanAct == pc \in { "idle", "streamFetch", "streamRead", "streamJson",
                       "fbFetch", "fbJson" }

----------------------------------------------------------------------------
(* User events *)

(* What the handler leaves behind when it has returned (its locals, the   *)
(* response it worked on) is dead: nothing reads it again, and the next    *)
(* accepted send starts afresh.  It is kept for exactly the state in which *)
(* the exchange has just completed and dropped at the next user event.     *)
exchangeRecord == << gotDelta, wire, lines, res, result, thrown, via, sec,
                     secResult, secThrown, cbLog >>

DropRecordWhenIdle ==
    IF pc = "idle"
    THEN /\ gotDelta' = FALSE
         /\ wire' = <<>>
         /\ lines' = <<>>
         /\ res' = NoRes
         /\ result' = None
         /\ thrown' = None
         /\ via' = "none"
         /\ sec' = NoSec
         /\ secResult' = None
         /\ secThrown' = None
         /\ cbLog' = <<>>
    ELSE UNCHANGED exchangeRecord

(* onChange={(e) => setInput(e.target.value)} *)
SetInput(v) ==
    /\ UserCanAct
    /\ v # input
    /\ input' = v
    /\ lastCall' = "none"
    /\ DropRecordWhenIdle
    /\ UNCHANGED << messages, loading, pc, requests, buffer, final, reads >>
    /\ UNCHANGED grounded
    /\ UNCHANGED handlerVars
    /\ UNCHANGED backendVars

(* onChange={(e) => setGrounded(e.target.checked)} *)
SetGrounded(v) ==
    /\ UserCanAct
    /\ v # grounded
    /\ grounded' = v
    /\ lastCall' = "none"
    /\ DropRecordWhenIdle
    /\ UNCHANGED << input, messages, loading, pc, requests, buffer, final, reads >>
    /\ UNCHANGED handlerVars
    /\ UNCHANGED backendVars

SendRejectedBlankOnly(t, isLoading) == t = <<>>

(* if (!text || loading) return; *)
SendRejected(t, isLoading) == t = <<>> \/ isLoading

(* const text = input.trim(); *)
SendText(raw) == Trim(raw)

(* handleSend, the call returns at its guard *)
HandleSendRejected ==
    /\ UserCanAct
    /\ SendRejected(SendText(input), loading)
    /\ lastCall' = "rejected"
    /\ DropRecordWhenIdle
    /\ UNCHANGED << input, messages, loading, pc, requests, buffer, final, reads >>
    /\ UNCHANGED grounded
    /\ UNCHANGED handlerVars
    /\ UNCHANGED backendVars

NewPairSwapped(id, t) ==
    << Msg(id + 1, "assistant", <<>>), Msg(id, "user", t) >>

(* setMessages((m) => [...m, userMsg]);
   setMessages((m) => [...m, { id: botId, role: "assistant", content: "" }]) *)
NewPair(id, t) ==
    << Msg(id, "user", t), Msg(id + 1, "assistant", <<>>) >>

(* handleSend up to its first suspension, the await of the streaming fetch *)
HandleSendAccepted ==
    /\ UserCanAct
    /\ started < MaxExchanges
    /\ ~SendRejected(SendText(input), loading)
    /\ LET t == SendText(input) IN
        /\ text' = t
        /\ messages' = messages \o NewPair(nextId, t)
        /\ requests' = << StreamRequest(t, grounded) >>
    /\ messagesSeen' = messages
    /\ botId' = nextId + 1
    /\ nextId' = nextId + 2
    /\ input' = <<>>
    /\ loading' = TRUE
    /\ gotDelta' = FALSE
    /\ started' = started + 1
    /\ buffer' = <<>>
    /\ final' = <<>>
    /\ reads' = 0
    /\ wire' = <<>>
    /\ lines' = <<>>
    /\ res' = NoRes
    /\ result' = None
    /\ thrown' = None
    /\ via' = "none"
    /\ sec' = NoSec
    /\ secResult' = None
    /\ secThrown' = None
    /\ cbLog' = <<>>
    /\ pc' = "streamFetch"
    /\ lastCall' = "accepted"
    /\ groundedSeen' = grounded
    /\ UNCHANGED grounded
    /\ UNCHANGED backendVars

----------------------------------------------------------------------------
(* streamConciergeAPI *)

(* Variables no step of streamConciergeAPI changes *)
outsideStream == << input, loading, text, botId, messagesSeen, via, sec,
                    secResult, secThrown, requests, nextId, started,
                    grounded, groundedSeen,
                    backendVars >>

(* await fetch(...) rejects: the call throws *)
StreamFetchRejects ==
    /\ pc = "streamFetch"
    /\ thrown' = Some(NetworkError)
    /\ pc' = "streamThrown"
    /\ lastCall' = "none"
    /\ UNCHANGED << messages, gotDelta, res, result, cbLog >>
    /\ UNCHANGED sessionVars
    /\ UNCHANGED outsideStream

(* if (!res.ok) throw new Error(`Proxy error: ${res.status}`) *)
StreamFetchNotOk(status, ct) ==
    /\ pc = "streamFetch"
    /\ ~ResOk(status)
    /\ res' = Res(status, ct)
    /\ thrown' = Some(ProxyError(status))
    /\ pc' = "streamThrown"
    /\ lastCall' = "none"
    /\ UNCHANGED << messages, gotDelta, result, cbLog >>
    /\ UNCHANGED sessionVars
    /\ UNCHANGED outsideStream

(* res.ok, a streaming content kind, a body: the first reader.read() is awaited *)
StreamFetchOkStream(status, ct) ==
    /\ pc = "streamFetch"
    /\ ResOk(status)
    /\ IsStreamingKind(ct)
    /\ res' = Res(status, ct)
    /\ buffer' = <<>>
    /\ final' = <<>>
    /\ reads' = 0
    /\ wire' = <<>>
    /\ lines' = <<>>
    /\ pc' = "streamRead"
    /\ lastCall' = "none"
    /\ UNCHANGED << messages, gotDelta, result, thrown, cbLog >>
    /\ UNCHANGED outsideStream

(* res.ok, a streaming content kind, no body: if (!reader) return { final } *)
StreamFetchOkNoBody(status, ct) ==
    /\ pc = "streamFetch"
    /\ ResOk(status)
    /\ IsStreamingKind(ct)
    /\ res' = Res(status, ct)
    /\ result' = Some([final |-> <<>>, sources |-> None])
    /\ pc' = "streamReturn"
    /\ lastCall' = "none"
    /\ UNCHANGED << messages, gotDelta, thrown, cbLog >>
    /\ UNCHANGED sessionVars
    /\ UNCHANGED outsideStream

(* res.ok, any other content kind: res.json() is awaited *)
StreamFetchOkJson(status, ct) ==
    /\ pc = "streamFetch"
    /\ ResOk(status)
    /\ ~IsStreamingKind(ct)
    /\ res' = Res(status, ct)
    /\ pc' = "streamJson"
    /\ lastCall' = "none"
    /\ UNCHANGED << messages, gotDelta, result, thrown, cbLog >>
    /\ UNCHANGED sessionVars
    /\ UNCHANGED outsideStream

ChunkAlone(kept, chunk) == chunk

(* buffer += decoder.decode(value, { stream: true }) *)
Buffered(kept, chunk) == kept \o chunk

(* One pass of the while loop: a chunk arrives, its complete lines are     *)
(* decoded and every delta is added to final and handed to onDelta, which  *)
(* sets gotDelta and appends the delta to the placeholder.                 *)
ReadChunk(chunk) ==
    /\ pc = "streamRead"
    /\ LET pieces == SplitLines(Buffered(buffer, chunk))
           deltas == DeltasOf(AllButLast(pieces))
       IN  /\ buffer' = LastPiece(pieces)
           /\ lines' = lines \o AllButLast(pieces)
           /\ final' = final \o Concat(deltas)
           /\ cbLog' = cbLog \o deltas
           /\ gotDelta' = (gotDelta \/ deltas # <<>>)
           /\ messages' = AppendAll(messages, botId, deltas)
    /\ reads' = reads + 1
    /\ wire' = wire \o chunk
    /\ pc' = "streamRead"
    /\ lastCall' = "none"
    /\ UNCHANGED << res, result, thrown >>
    /\ UNCHANGED outsideStream

StreamReadChunk(chunk) ==
    /\ reads < MaxChunks
    /\ ReadChunk(chunk)

(* { done: true }: the loop ends, the tail is processed if it is a         *)
(* complete data line, and the session returns { final }.                  *)
TailForwardedRaw(tail) == IF tail # <<>> THEN << tail >> ELSE <<>>

(* const tail = extractDeltaFromSSELine(buffer); if (tail) { ... } *)
TailDeltas(tail) == DeltasOf(<< tail >>)

StreamReadDone ==
    /\ pc = "streamRead"
    /\ LET deltas == TailDeltas(buffer)
       IN  /\ result' = Some([final |-> final \o Concat(deltas), sources |-> None])
           /\ cbLog' = cbLog \o deltas
           /\ gotDelta' = (gotDelta \/ deltas # <<>>)
           /\ messages' = AppendAll(messages, botId, deltas)
    /\ lines' = Append(lines, buffer)
    /\ buffer' = <<>>
    /\ final' = <<>>
    /\ reads' = 0
    /\ pc' = "streamReturn"
    /\ UNCHANGED wire
    /\ lastCall' = "none"
    /\ UNCHANGED << res, thrown >>
    /\ UNCHANGED outsideStream

(* await reader.read() rejects: the session throws, final is lost *)
StreamReadFails ==
    /\ pc = "streamRead"
    /\ thrown' = Some(NetworkError)
    /\ buffer' = <<>>
    /\ final' = <<>>
    /\ reads' = 0
    /\ pc' = "streamThrown"
    /\ UNCHANGED << wire, lines >>
    /\ lastCall' = "none"
    /\ UNCHANGED << messages, gotDelta, res, result, cbLog >>
    /\ UNCHANGED outsideStream

(* return { final: data?.reply ?? "",
            sources: Array.isArray(data?.sources) ? data.sources : undefined } *)
JsonOutcome(data) ==
    [final   |-> IF data.reply # None THEN TheValue(data.reply) ELSE <<>>,
     sources |-> data.sources]

StreamJsonResolves(data) ==
    /\ pc = "streamJson"
    /\ result' = Some(JsonOutcome(data))
    /\ pc' = "streamReturn"
    /\ lastCall' = "none"
    /\ UNCHANGED << messages, gotDelta, res, thrown, cbLog >>
    /\ UNCHANGED sessionVars
    /\ UNCHANGED outsideStream

(* await res.json() rejects: the body is not JSON *)
StreamJsonFails ==
    /\ pc = "streamJson"
    /\ thrown' = Some(JsonError)
    /\ pc' = "streamThrown"
    /\ lastCall' = "none"
    /\ UNCHANGED << messages, gotDelta, res, result, cbLog >>
    /\ UNCHANGED sessionVars
    /\ UNCHANGED outsideStream

----------------------------------------------------------------------------
(* callConciergeAPI *)

outsideFallback == << input, messages, loading, text, botId, messagesSeen,
                      gotDelta, res, result, thrown, via, requests, nextId,
                      started, cbLog, grounded, groundedSeen,
                    backendVars >>

CaughtResultEmpty == [reply |-> <<>>, sources |-> None]

(* catch { return { reply: "(demo) ..." } } *)
CaughtResult == [reply |-> OfflineMessage, sources |-> None]

AlwaysCaught(data) == CaughtResult

MalformedError == << "Malformed response from proxy" >>

(* How a call of callConciergeAPI ends: with a returned value or with an   *)
(* error that leaves it                                                    *)
Returned(value) == [result |-> Some(value), error |-> None]

Rethrown(err) == [result |-> None, error |-> Some(err)]

(* try { ... } catch { return { reply: "(demo) ..." } }: whatever the try  *)
(* block threw, the call returns the fixed result                          *)
Caught(err) == Returned(CaughtResult)

(* return { reply: data.reply, sources: data?.sources } *)
ParsedResult(data) == [reply |-> TheValue(data.reply), sources |-> data.sources]

(* await fetch(...) rejects *)
FallbackFetchRejects ==
    /\ pc = "fbFetch"
    /\ sec' = Sec("neterr", None)
    /\ secResult' = Caught(NetworkError).result
    /\ secThrown' = Caught(NetworkError).error
    /\ pc' = "fbReturn"
    /\ lastCall' = "none"
    /\ UNCHANGED sessionVars
    /\ UNCHANGED outsideFallback

(* if (!res.ok) throw new Error(...), caught *)
FallbackFetchNotOk(status) ==
    /\ pc = "fbFetch"
    /\ ~ResOk(status)
    /\ sec' = Sec("notok", None)
    /\ secResult' = Caught(ProxyError(status)).result
    /\ secThrown' = Caught(ProxyError(status)).error
    /\ pc' = "fbReturn"
    /\ lastCall' = "none"
    /\ UNCHANGED sessionVars
    /\ UNCHANGED outsideFallback

(* res.ok: res.json() is awaited *)
FallbackFetchOk(status) ==
    /\ pc = "fbFetch"
    /\ ResOk(status)
    /\ pc' = "fbJson"
    /\ lastCall' = "none"
    /\ UNCHANGED << sec, secResult, secThrown >>
    /\ UNCHANGED sessionVars
    /\ UNCHANGED outsideFallback

(* await res.json() rejects, caught *)
FallbackJsonFails ==
    /\ pc = "fbJson"
    /\ sec' = Sec("badjson", None)
    /\ secResult' = Caught(JsonError).result
    /\ secThrown' = Caught(JsonError).error
    /\ pc' = "fbReturn"
    /\ lastCall' = "none"
    /\ UNCHANGED sessionVars
    /\ UNCHANGED outsideFallback

(* if (typeof data?.reply === "string")
     return { reply: data.reply, sources: data?.sources };
   throw new Error("Malformed response from proxy"), caught *)
FallbackJsonResolves(data) ==
    /\ pc = "fbJson"
    /\ IF data.reply # None
       THEN /\ sec' = Sec("ok", Some(data))
            /\ secResult' = Returned(ParsedResult(data)).result
            /\ secThrown' = Returned(ParsedResult(data)).error
       ELSE /\ sec' = Sec("noreply", Some(data))
            /\ secResult' = Caught(MalformedError).result
            /\ secThrown' = Caught(MalformedError).error
    /\ pc' = "fbReturn"
    /\ lastCall' = "none"
    /\ UNCHANGED sessionVars
    /\ UNCHANGED outsideFallback

----------------------------------------------------------------------------
(* handleSend after the stream session *)

outsideHandler == << input, text, botId, messagesSeen, gotDelta, res, result,
                     thrown, nextId, started, cbLog, grounded, groundedSeen,
                    backendVars >>

callRecord == << sec, secResult, secThrown >>

(* if (!gotDelta && result.final) content = result.final;
   if (result.sources) sources = result.sources *)
ApplyOutcome(m, id, gd, r) ==
    LET m1 == IF ~gd /\ r.final # <<>> THEN SetContent(m, id, r.final) ELSE m
    IN  IF r.sources # None THEN SetSources(m1, id, r.sources) ELSE m1

(* !gotDelta && (!current || !current.content) *)
NeedsFallback(gd, current) ==
    ~gd /\ (IF current = None THEN TRUE ELSE TheValue(current).content = <<>>)

ClearedInTryOnly(v) == v = "catch"

(* finally { setLoading(false) } *)
LoadingAfterExchange(v) == FALSE

(* streamConciergeAPI returned and the secondary call is made:
   const current = messages.find((m) => m.id === botId), where `messages`
   is the value the handler's closure captured when it was called *)
AfterStreamFallback ==
    /\ pc = "streamReturn"
    /\ NeedsFallback(gotDelta, Find(messagesSeen, botId))
    /\ messages' = ApplyOutcome(messages, botId, gotDelta, TheValue(result))
    /\ requests' = Append(requests, PlainRequest(text, groundedSeen))
    /\ via' = "try"
    /\ pc' = "fbFetch"
    /\ lastCall' = "none"
    /\ UNCHANGED loading
    /\ UNCHANGED sessionVars
    /\ UNCHANGED outsideHandler
    /\ UNCHANGED callRecord

(* streamConciergeAPI returned and no secondary call is made: finally *)
AfterStreamFinish ==
    /\ pc = "streamReturn"
    /\ ~NeedsFallback(gotDelta, Find(messagesSeen, botId))
    /\ messages' = ApplyOutcome(messages, botId, gotDelta, TheValue(result))
    /\ loading' = LoadingAfterExchange(via)
    /\ pc' = "idle"
    /\ lastCall' = "none"
    /\ UNCHANGED << via, requests >>
    /\ UNCHANGED sessionVars
    /\ UNCHANGED outsideHandler
    /\ UNCHANGED callRecord

(* streamConciergeAPI threw: catch { await callConciergeAPI(text) ... } *)
AfterStreamThrown ==
    /\ pc = "streamThrown"
    /\ requests' = Append(requests, PlainRequest(text, groundedSeen))
    /\ via' = "catch"
    /\ pc' = "fbFetch"
    /\ lastCall' = "none"
    /\ UNCHANGED << messages, loading >>
    /\ UNCHANGED sessionVars
    /\ UNCHANGED outsideHandler
    /\ UNCHANGED callRecord

(* The call of callConciergeAPI ended (either call site).  With a value:
   setMessages(... { ...msg, content: reply, sources } ...), then finally.
   With an error: one that leaves the call made in the try block is caught
   by the handler's catch, which makes the call again; one that leaves the
   call made in the catch block leaves handleSend through finally. *)
AfterFallback ==
    /\ pc = "fbReturn"
    /\ IF secResult # None
       THEN /\ LET r == TheValue(secResult)
               IN  messages' = SetReply(messages, botId, r.reply, r.sources)
            /\ loading' = LoadingAfterExchange(via)
            /\ pc' = "idle"
            /\ UNCHANGED << via, requests >>
            /\ UNCHANGED callRecord
       ELSE IF via = "try"
            THEN /\ requests' = Append(requests, PlainRequest(text, groundedSeen))
                 /\ via' = "catch"
                 /\ sec' = NoSec
                 /\ secResult' = None
                 /\ secThrown' = None
                 /\ pc' = "fbFetch"
                 /\ UNCHANGED << messages, loading >>
            ELSE /\ loading' = LoadingAfterExchange(via)
                 /\ pc' = "idle"
                 /\ UNCHANGED << messages, via, requests >>
                 /\ UNCHANGED callRecord
    /\ lastCall' = "none"
    /\ UNCHANGED sessionVars
    /\ UNCHANGED outsideHandler

----------------------------------------------------------------------------
(* The specification *)

UserStep ==
    \/ \E v \in InputSet : SetInput(v)
    \/ HandleSendRejected
    \/ HandleSendAccepted

StreamStep ==
    \/ StreamFetchRejects
    \/ \E r \in Responses : StreamFetchNotOk(r[1], r[2])
    \/ \E r \in Responses : StreamFetchOkStream(r[1], r[2])
    \/ \E r \in Responses : StreamFetchOkNoBody(r[1], r[2])
    \/ \E r \in Responses : StreamFetchOkJson(r[1], r[2])
    \/ \E c \in ChunkSet : StreamReadChunk(c)
    \/ StreamReadDone
    \/ StreamReadFails
    \/ \E d \in StreamJsonBodies : StreamJsonResolves(d)
    \/ StreamJsonFails

FallbackStep ==
    \/ FallbackFetchRejects
    \/ \E st \in FailStatuses \cup OkStatuses : FallbackFetchNotOk(st)
    \/ \E st \in FailStatuses \cup OkStatuses : FallbackFetchOk(st)
    \/ FallbackJsonFails
    \/ \E d \in FallbackJsonBodies : FallbackJsonResolves(d)

HandlerStep ==
    \/ AfterStreamFallback
    \/ AfterStreamFinish
    \/ AfterStreamThrown
    \/ AfterFallback

NetworkStep == StreamStep \/ FallbackStep

Next == UserStep \/ NetworkStep \/ HandlerStep

Spec == Init /\ [][Next]_vars

(* The event loop runs every continuation that is ready, and every network *)
(* operation eventually returns or fails                                   *)
FairSpec == Spec /\ WF_vars(NetworkStep \/ HandlerStep)

----------------------------------------------------------------------------
(* The stream session on its own: the read loop of streamConciergeAPI over *)
(* a response of each streaming kind whose body arrives in arbitrary       *)
(* chunks                                                                  *)

MaxDecoderChunks == 3

(* Pieces of a body: an empty chunk; a complete delta line; a line of the  *)
(* end marker; a delta line without its terminator; a terminator split in  *)
(* two; a line that is no data line; a data line whose payload is not      *)
(* JSON; a JSON line without the data prefix; the end marker followed, in  *)
(* the same chunk, by a delta line; three lines of records, with both      *)
(* fields, with neither, with a delta that is no string.                   *)
DecoderChunks ==
    { <<>>,
      << DataPrefix, SP, JDeltaRiyadh, NL >>,
      << DataPrefix, SP, DoneToken, NL >>,
      << DataPrefix, JDeltaHub >>,
      << CR >>,
      << NL >>,
      << "oops", NL >>,
      << DataPrefix, SP, "oops", CR, NL >>,
      << JDeltaHub, NL >>,
      << DataPrefix, SP, DoneToken, NL, DataPrefix, SP, JTextT, NL >>,
      << DataPrefix, SP, JBoth, NL, DataPrefix, SP, JSourcesOnly, NL,
         DataPrefix, SP, JDeltaNumber, NL >> }

(* The response, with the Content-Type it declared *)
ResOfKind(status, ct) ==
    [status |-> status, streaming |-> IsStreamingKind(ct), received |-> TRUE,
     ct |-> ct]

(* The component when handleSend has accepted Prompt and the streaming     *)
(* fetch has resolved with a success status, a streaming kind and a body   *)
DecoderInit ==
    /\ \E st \in OkStatuses, ct \in StreamingKinds : res = ResOfKind(st, ct)
    /\ input = <<>>
    /\ messages = NewPair(1, << Prompt >>)
    /\ loading = TRUE
    /\ pc = "streamRead"
    /\ text = << Prompt >>
    /\ botId = 2
    /\ messagesSeen = <<>>
    /\ gotDelta = FALSE
    /\ buffer = <<>>
    /\ final = <<>>
    /\ reads = 0
    /\ wire = <<>>
    /\ lines = <<>>
    /\ result = None
    /\ thrown = None
    /\ via = "none"
    /\ sec = NoSec
    /\ secResult = None
    /\ secThrown = None
    /\ requests = << StreamRequest(<< Prompt >>, TRUE) >>
    /\ grounded = TRUE
    /\ groundedSeen = TRUE
    /\ nextId = 3
    /\ started = 1
    /\ cbLog = <<>>
    /\ lastCall = "none"
    /\ beReq = NoRequest
    /\ bePc = "idle"
    /\ beUp = NoUpstream
    /\ beOut = NoOutcome

DecoderReadChunk(chunk) ==
    /\ reads < MaxDecoderChunks
    /\ ReadChunk(chunk)

DecoderNext ==
    \/ \E c \in DecoderChunks : DecoderReadChunk(c)
    \/ StreamReadDone
    \/ StreamReadFails

DecoderSpec == DecoderInit /\ [][DecoderNext]_vars


----------------------------------------------------------------------------
(* onRequest of functions/api/concierge.ts *)

(* The answer to a request that gets one without a completion call: GET    *)
(* (with ?debug the vector store is queried first; whatever that gives,    *)
(* the answer is 200 with the same document but for its vectorStore        *)
(* field); a method that is not POST; no usable key; a body that is not    *)
(* JSON; no message                                                        *)
EarlyResponse(req) ==
    IF req.method = "GET" THEN Some(json(HealthBody, 200))
    ELSE IF req.method # "POST"
         THEN Some(json(ErrorBody("Method not allowed"), 405))
    ELSE IF KeyMissing(req.key)
         THEN Some(json(ErrorBody("OPENAI_API_KEY not configured"), 500))
    ELSE IF req.body = None
         THEN Some(json(ErrorBody("Invalid JSON body"), 400))
    ELSE IF MessageOf(TheValue(req.body)) = <<>>
         THEN Some(json(ErrorBody("Missing 'message' (string) in body"), 400))
    ELSE None

(* A request that is answered without a completion call *)
BackendAnswersAtOnce(req) ==
    /\ bePc = "idle"
    /\ EarlyResponse(req) # None
    /\ beReq' = req
    /\ beUp' = NoUpstream
    /\ beOut' = TheValue(EarlyResponse(req))
    /\ bePc' = "idle"
    /\ UNCHANGED clientVars

(* A request that passes every check: await fetch(".../v1/responses") *)
BackendCallsUpstream(req) ==
    /\ bePc = "idle"
    /\ EarlyResponse(req) = None
    /\ beReq' = req
    /\ beUp' = UpstreamCall(Some(UpstreamPayload(req)), "pending", 0, None)
    /\ beOut' = NoOutcome
    /\ bePc' = "upstream"
    /\ UNCHANGED clientVars

(* The await of the upstream fetch rejects: nothing catches it *)
BackendUpstreamRejects ==
    /\ bePc = "upstream"
    /\ beUp' = [beUp EXCEPT !.outcome = "rejected"]
    /\ beOut' = HandlerThrew
    /\ bePc' = "idle"
    /\ UNCHANGED beReq
    /\ UNCHANGED clientVars

(* if (!upstream.ok) return json({ error: "OpenAI upstream error", ... }, 502) *)
BackendUpstreamNotOk(status) ==
    /\ bePc = "upstream"
    /\ ~UpstreamOk(status)
    /\ beUp' = [beUp EXCEPT !.outcome = "notok", !.status = status]
    /\ beOut' = json(UpstreamErrorBody(UpstreamErrorText), 502)
    /\ bePc' = "idle"
    /\ UNCHANGED beReq
    /\ UNCHANGED clientVars

(* wantStream and upstream.ok: the upstream body is passed on *)
BackendUpstreamOkStream(status) ==
    /\ bePc = "upstream"
    /\ TheValue(beUp.payload).stream
    /\ UpstreamOk(status)
    /\ beUp' = [beUp EXCEPT !.outcome = "ok", !.status = status]
    /\ beOut' = PipedResponse
    /\ bePc' = "idle"
    /\ UNCHANGED beReq
    /\ UNCHANGED clientVars

(* not wantStream, upstream.ok, upstream.json() resolves:
   return json({ reply, ...(sources.length ? { sources } : {}) }) *)
BackendUpstreamOkJson(status, data) ==
    /\ bePc = "upstream"
    /\ ~TheValue(beUp.payload).stream
    /\ UpstreamOk(status)
    /\ beUp' = [beUp EXCEPT !.outcome = "ok", !.status = status,
                            !.data = Some(data)]
    /\ beOut' = json(ReplyBody(ReplyOf(data), SourcesOf(data.output)), 200)
    /\ bePc' = "idle"
    /\ UNCHANGED beReq
    /\ UNCHANGED clientVars

(* not wantStream, upstream.ok, upstream.json() rejects: nothing catches it *)
BackendUpstreamBadJson(status) ==
    /\ bePc = "upstream"
    /\ ~TheValue(beUp.payload).stream
    /\ UpstreamOk(status)
    /\ beUp' = [beUp EXCEPT !.outcome = "badjson", !.status = status]
    /\ beOut' = HandlerThrew
    /\ bePc' = "idle"
    /\ UNCHANGED beReq
    /\ UNCHANGED clientVars

BackendNext ==
    \/ \E req \in BackendRequests : BackendAnswersAtOnce(req)
    \/ \E req \in BackendRequests : BackendCallsUpstream(req)
    \/ BackendUpstreamRejects
    \/ \E st \in UpstreamStatuses : BackendUpstreamNotOk(st)
    \/ \E st \in UpstreamStatuses : BackendUpstreamOkStream(st)
    \/ \E st \in UpstreamStatuses, d \in UpstreamDocs : BackendUpstreamOkJson(st, d)
    \/ \E st \in UpstreamStatuses : BackendUpstreamBadJson(st)

(* The proxy on its own, serving one request after another *)
BackendSpec == Init /\ [][BackendNext]_vars

----------------------------------------------------------------------------
(* The component and the proxy together: fetch("/api/concierge") of the    *)
(* component is served by onRequest                                        *)

MaxE2EExchanges == 1

(* The connection of the request the component is waiting on: the exchange *)
(* and the position of the request in it                                   *)
Conn == << started, Len(requests) >>

(* The component awaits a fetch *)
Awaiting == pc \in { "streamFetch", "fbFetch" }

(* The proxy has been handed the request the component is waiting on *)
Taken == beReq.conn = Conn

(* The deployment: its key and whether a vector store is configured; it    *)
(* stays as it is from the first request on                                *)
Deployments ==
    IF beReq = NoRequest THEN Keys \X BOOLEAN
    ELSE { << beReq.key, beReq.store >> }

(* fetch("/api/concierge", { method: "POST", body: JSON.stringify(...) })  *)
(* as onRequest receives it                                                *)
E2ERequest(env) ==
    LET sent == requests[Len(requests)] IN
    [method |-> "POST", debug |-> FALSE, key |-> env[1], store |-> env[2],
     body |-> Some(BodyDoc(Some(sent.message), sent.stream, sent.strict)),
     conn |-> Conn]

(* onRequest has ended for the request the component is waiting on *)
Answered == bePc = "idle" /\ Taken /\ beOut.kind # "none"

(* Statuses the platform answers with when onRequest ends in an error *)
PlatformStatuses == { 500 }

E2ESend == started < MaxE2EExchanges /\ HandleSendAccepted

E2EAnswersAtOnce ==
    /\ Awaiting
    /\ ~Taken
    /\ \E env \in Deployments : BackendAnswersAtOnce(E2ERequest(env))

E2ECallsUpstream ==
    /\ Awaiting
    /\ ~Taken
    /\ \E env \in Deployments : BackendCallsUpstream(E2ERequest(env))

(* The streaming fetch resolves with what onRequest returned *)
E2EStreamNotOk ==
    /\ Answered
    /\ beOut.kind = "response"
    /\ StreamFetchNotOk(beOut.status, beOut.ct)

E2EStreamOk ==
    /\ Answered
    /\ beOut.kind = "response"
    /\ StreamFetchOkStream(beOut.status, beOut.ct)

(* onRequest ended in an error: the platform's error page *)
E2EStreamThrown ==
    /\ Answered
    /\ beOut.kind = "thrown"
    /\ \E st \in PlatformStatuses : StreamFetchNotOk(st, "text/plain")

(* The secondary fetch resolves with what onRequest returned *)
E2EFallbackNotOk ==
    /\ Answered
    /\ beOut.kind = "response"
    /\ FallbackFetchNotOk(beOut.status)

E2EFallbackOk ==
    /\ Answered
    /\ beOut.kind = "response"
    /\ FallbackFetchOk(beOut.status)

E2EFallbackThrown ==
    /\ Answered
    /\ beOut.kind = "thrown"
    /\ \E st \in PlatformStatuses : FallbackFetchNotOk(st)

(* res.json() of the secondary response: the document json() serialized *)
E2EFallbackJson ==
    /\ Answered
    /\ FallbackJsonResolves(Doc(beOut.body.reply, beOut.body.sources))

(* The user's events, the proxy's steps, the network's, the handler's *)
E2ENext ==
    \/ \E v \in InputSet : SetInput(v)
    \/ \E v \in BOOLEAN : SetGrounded(v)
    \/ HandleSendRejected
    \/ E2ESend
    \/ E2EAnswersAtOnce
    \/ E2ECallsUpstream
    \/ BackendUpstreamRejects
    \/ \E st \in UpstreamStatuses : BackendUpstreamNotOk(st)
    \/ \E st \in UpstreamStatuses : BackendUpstreamOkStream(st)
    \/ \E st \in UpstreamStatuses, d \in UpstreamDocs : BackendUpstreamOkJson(st, d)
    \/ \E st \in UpstreamStatuses : BackendUpstreamBadJson(st)
    \/ StreamFetchRejects
    \/ E2EStreamNotOk
    \/ E2EStreamOk
    \/ E2EStreamThrown
    \/ \E c \in ChunkSet : StreamReadChunk(c)
    \/ StreamReadDone
    \/ StreamReadFails
    \/ FallbackFetchRejects
    \/ E2EFallbackNotOk
    \/ E2EFallbackOk
    \/ E2EFallbackThrown
    \/ E2EFallbackJson
    \/ HandlerStep

E2ESpec == Init /\ [][E2ENext]_vars

----------------------------------------------------------------------------
(* Observations used by the properties *)

(* The assistant placeholder of the latest exchange *)
Placeholder == TheValue(Find(messages, botId))

CountRole(role) == Cardinality({ i \in 1..Len(messages) : messages[i].role = role })

SecondaryRequests == { i \in 1..Len(requests) : ~requests[i].stream }

StreamingRequests == { i \in 1..Len(requests) : requests[i].stream }

(* A step that is a call of handleSend *)
SendCalled == lastCall' \in { "accepted", "rejected" }

Blank(s) == \A i \in 1..Len(s) : s[i] \in Whitespace

(* The exchange has completed and its record is still there *)
Completed ==
    /\ pc = "idle"
    /\ ~loading
    /\ started > 0
    /\ (result # None \/ secResult # None)

StreamReturned == result # None

StreamThrew == thrown # None

SecondaryFailed == sec.outcome \in { "neterr", "notok", "badjson", "noreply" }

----------------------------------------------------------------------------
(* C1. Mutual exclusion of send: a call of handleSend made while an        *)
(* exchange is in flight appends nothing to the transcript and issues no   *)
(* request; an exchange starts only when none is in flight; the transcript *)
(* holds as many user messages and as many assistant placeholders as       *)
(* exchanges were started; the in-flight flag is set exactly while a       *)
(* handler is running.                                                     *)
C1_Counts ==
    /\ CountRole("user") = started
    /\ CountRole("assistant") = started
    /\ Len(messages) = 2 * started
    /\ loading <=> (pc # "idle")

C1_MutualExclusion ==
    /\ []C1_Counts
    /\ [][(loading /\ SendCalled) =>
            (messages' = messages /\ requests' = requests /\ started' = started)]_vars
    /\ [][(started' # started) => (~loading /\ pc = "idle" /\ started' = started + 1)]_vars

C1_Witness ==
    /\ loading
    /\ lastCall = "rejected"
    /\ ~Blank(input)
    /\ Len(messages) = 2

(* C2. A call of handleSend with an empty or whitespace-only input changes *)
(* neither the transcript, nor the in-flight flag, nor the input, and      *)
(* issues no request, in every state.                                      *)
C2_BlankSendIsNoOp ==
    [][(SendCalled /\ Blank(input)) =>
         (/\ messages' = messages
          /\ loading' = loading
          /\ input' = input
          /\ requests' = requests
          /\ pc' = pc
          /\ lastCall' = "rejected")]_vars

C2_Witness ==
    /\ lastCall = "rejected"
    /\ input = << SP >>
    /\ ~loading

(* C3. Guaranteed release: whenever the in-flight flag is set it is        *)
(* eventually cleared, whichever way the exchange ends, given that every   *)
(* network operation eventually returns or fails; and a call of handleSend *)
(* with non-blank text made while the flag is clear is accepted.           *)
C3_GuaranteedRelease ==
    /\ loading ~> ~loading
    /\ [][(~loading /\ SendCalled /\ ~Blank(input)) =>
            (lastCall' = "accepted" /\ loading' /\ started' = started + 1)]_vars

C3_Witness ==
    /\ started = 2
    /\ lastCall = "accepted"
    /\ messages[2].content = OfflineMessage

(* C4. Order-preserving append: when a stream session over a streaming     *)
(* content kind has returned normally after at least one delta, onDelta    *)
(* was called once for each delta of the body, in the order of the body,   *)
(* and the placeholder's content is the concatenation of those deltas,     *)
(* then and when the exchange has completed.                               *)
C4_OrderPreservingAppend ==
    (StreamReturned /\ res.streaming /\ cbLog # <<>>) =>
        /\ cbLog = DeltasOf(SplitLines(wire))
        /\ Placeholder.content = Concat(cbLog)
        /\ TheValue(result).final = Concat(cbLog)
        /\ gotDelta

C4_Witness ==
    /\ Completed
    /\ StreamReturned
    /\ reads = 0
    /\ wire = << DataPrefix, SP, JDeltaRiyadh, NL,
                 DataPrefix, SP, JDeltaHub, NL, DataPrefix, SP, DoneToken, NL >>
    /\ cbLog = << << "Riyadh " >>, << "is a hub." >> >>
    /\ Placeholder.content = << "Riyadh ", "is a hub." >>

(* C5. Scenario B: when the streaming request was answered with a content  *)
(* kind that is no streaming kind and a JSON body with a non-empty reply R *)
(* and a citation list S, no delta is emitted and, when the exchange has   *)
(* completed, the placeholder's content is R and its sources are S.        *)
C5_NonStreamResult ==
    (Completed /\ StreamReturned /\ ~res.streaming
        /\ TheValue(result).final # <<>> /\ TheValue(result).sources # None) =>
        /\ cbLog = <<>>
        /\ Placeholder.content = TheValue(result).final
        /\ Placeholder.sources = TheValue(result).sources

(* C6. Tier-3 entry condition: the secondary request is issued from the    *)
(* normal path only if no delta was observed and the placeholder's content *)
(* is still empty after the non-stream result was applied.                 *)
C6_SecondaryOnlyIfStillEmpty ==
    (via = "try") => (~gotDelta /\ TheValue(result).final = <<>>)

(* C7. In every exchange in which a delta was observed, no secondary       *)
(* request is issued and neither the secondary reply nor the offline       *)
(* message is written to the placeholder.                                  *)
C7_NoFallbackAfterDelta ==
    (cbLog # <<>>) =>
        /\ SecondaryRequests = {}
        /\ via = "none"
        /\ Placeholder.content = Concat(cbLog)

(* C8. Scenario C: when the streaming request failed before any delta      *)
(* arrived and the secondary request failed too (network error,            *)
(* non-success status, unparsable body, body without a string reply), the  *)
(* completed exchange shows the fixed offline message and no sources.      *)
C8_OfflineFallback ==
    (Completed /\ StreamThrew /\ cbLog = <<>> /\ SecondaryFailed) =>
        /\ Placeholder.content = OfflineMessage
        /\ Placeholder.sources = None
        /\ Placeholder.role = "assistant"

C8_Witness ==
    /\ Completed
    /\ thrown = Some(ProxyError(502))
    /\ sec.outcome = "notok"
    /\ Placeholder.content = OfflineMessage
    /\ Placeholder.sources = None

(* C9. Scenario D: when the streaming response was a streaming kind that   *)
(* ended with zero deltas and the secondary call succeeded with reply R,   *)
(* exactly one secondary request was issued and the completed exchange     *)
(* shows R.                                                                *)
C9_SecondaryReplyShown ==
    (Completed /\ StreamReturned /\ res.streaming /\ cbLog = <<>>
        /\ sec.outcome = "ok") =>
        /\ Cardinality(SecondaryRequests) = 1
        /\ Cardinality(StreamingRequests) = 1
        /\ Placeholder.content = TheValue(TheValue(sec.doc).reply)

C9_Witness ==
    /\ Completed
    /\ StreamReturned
    /\ res.streaming
    /\ wire = <<>>
    /\ cbLog = <<>>
    /\ sec = Sec("ok", Some(Doc(Some(<< "Fallback answer" >>), None)))
    /\ Placeholder.content = << "Fallback answer" >>

(* C10. Transport failure: when the streaming request was answered with a  *)
(* non-success status, onDelta is never called and no StreamOutcome is     *)
(* returned, the session throws, handleSend goes on to the secondary call, *)
(* and no transcript message ever holds an error text.                     *)
C10_TransportFailure ==
    /\ (res.received /\ res.status \in FailStatuses) =>
          /\ cbLog = <<>>
          /\ result = None
          /\ wire = <<>>
          /\ thrown = Some(ProxyError(res.status))
          /\ pc \in { "streamThrown", "fbFetch", "fbJson", "fbReturn", "idle" }
          /\ (pc # "streamThrown") =>
                (via = "catch" /\ Cardinality(SecondaryRequests) = 1)
    /\ \A i \in 1..Len(messages) : messages[i].content \notin ErrorTexts

C10_Witness ==
    /\ Completed
    /\ res.status = 502
    /\ thrown = Some(ProxyError(502))
    /\ via = "catch"
    /\ sec.outcome = "ok"
    /\ Placeholder.content = << "Fallback answer" >>


----------------------------------------------------------------------------
(* C11. callConciergeAPI is a total terminal handler: whatever happened to *)
(* its request (the fetch rejected, a non-success status, a body that is   *)
(* not JSON, a document without a string reply, a document with one), the  *)
(* call ends by returning a result whose reply is a string, and never by   *)
(* an error that leaves it; the handler therefore makes at most one        *)
(* secondary request per exchange.                                         *)
CallOutcomes == { "neterr", "notok", "badjson", "noreply", "ok" }

C11_TotalTerminalHandler ==
    /\ secThrown = None
    /\ sec.outcome \in CallOutcomes =>
          /\ secResult # None
          /\ TheValue(secResult).reply \in Seq(STRING)
    /\ pc = "fbReturn" => sec.outcome \in CallOutcomes
    /\ Cardinality(SecondaryRequests) <= 1

C11_Witness ==
    /\ pc = "fbReturn"
    /\ sec.outcome = "badjson"
    /\ via = "try"
    /\ secResult = Some(CaughtResult)


----------------------------------------------------------------------------
(* C12. Citation attachment: when an exchange has completed and its        *)
(* StreamOutcome or the result of its secondary call carried a non-empty   *)
(* citation list, the placeholder has a citation list; a list attached     *)
(* from the StreamOutcome is not removed by a later step of the exchange;  *)
(* an empty list is never attached to a message.                           *)
NonEmptyList(s) == s # None /\ TheValue(s) # <<>>

StreamCarriedCitations == result # None /\ NonEmptyList(TheValue(result).sources)

SecondaryCarriedCitations ==
    secResult # None /\ NonEmptyList(TheValue(secResult).sources)

C12_AttachedAtEnd ==
    (Completed /\ (StreamCarriedCitations \/ SecondaryCarriedCitations))
        => NonEmptyList(Placeholder.sources)

C12_NotRemoved ==
    (StreamCarriedCitations /\ pc \in { "fbFetch", "fbJson", "fbReturn", "idle" })
        => NonEmptyList(Placeholder.sources)

C12_NoEmptyList ==
    \A i \in 1..Len(messages) : messages[i].sources # Some(<<>>)

C12_CitationAttachment ==
    /\ C12_AttachedAtEnd
    /\ C12_NotRemoved
    /\ C12_NoEmptyList


----------------------------------------------------------------------------
(* Observations of the stream session *)

(* The literal line  data: [DONE]  *)
IsDoneLine(line) == line = << DataPrefix, SP, DoneToken >>

(* What the extractor returns for a line without content *)
NoContent == None

IsTextDelta(opt) == opt # None /\ TheValue(opt) \in Seq(STRING)

HasLine(line) == \E i \in 1..Len(lines) : lines[i] = line

(* The lines up to and including the first data: [DONE] line *)
RECURSIVE UpToDone(_)
UpToDone(ls) ==
    IF ls = <<>> THEN <<>>
    ELSE IF IsDoneLine(Head(ls)) THEN << Head(ls) >>
    ELSE << Head(ls) >> \o UpToDone(Tail(ls))

NotWhitespace(tok) == tok \notin Whitespace

(* A data: line whose payload, white space apart, is a JSON document *)
IsJsonDataLine(line) ==
    /\ line # <<>>
    /\ Head(line) = DataPrefix
    /\ LET body == SelectSeq(Tail(line), NotWhitespace)
       IN  Len(body) = 1 /\ body[1] \in JsonTokens

(* The line without an optional data: prefix and one following space *)
WithoutPrefix(line) ==
    IF line # <<>> /\ Head(line) = DataPrefix
    THEN IF Tail(line) # <<>> /\ Head(Tail(line)) = SP
         THEN Tail(Tail(line))
         ELSE Tail(line)
    ELSE line

IsJsonText(s) == Len(s) = 1 /\ s[1] \in JsonTokens

(* The text with every terminator written as NL *)
RECURSIVE Normalised(_)
Normalised(s) ==
    IF s = <<>> THEN <<>>
    ELSE IF Head(s) = CR /\ Len(s) > 1 /\ s[2] = NL THEN Normalised(Tail(s))
    ELSE << Head(s) >> \o Normalised(Tail(s))

(* The lines, each followed by a terminator *)
RECURSIVE Joined(_)
Joined(ls) ==
    IF ls = <<>> THEN <<>> ELSE Head(ls) \o << NL >> \o Joined(Tail(ls))

----------------------------------------------------------------------------
(* C13. Delta extractor, event-stream framing: every decoded line          *)
(* data: {"delta":"X"} yields exactly X as the delta, and the literal line *)
(* data: [DONE] yields the terminal signal, an outcome that is neither     *)
(* "no content" nor a text delta.                                          *)
C13_DeltaAndTerminal ==
    res.ct = EventStream =>
        \A i \in 1..Len(lines) :
            /\ \A tok \in { JDeltaRiyadh, JDeltaHub, JDeltaEmpty } :
                  lines[i] = << DataPrefix, SP, tok >> =>
                      extractDeltaFromSSELine(lines[i]) = JsonParse(tok).delta
            /\ IsDoneLine(lines[i]) =>
                  /\ extractDeltaFromSSELine(lines[i]) # NoContent
                  /\ ~IsTextDelta(extractDeltaFromSSELine(lines[i]))

----------------------------------------------------------------------------
(* C14. A terminal signal concludes the stream session: the deltas handed  *)
(* to the callback, the placeholder's content and the final text come from *)
(* the lines up to the first data: [DONE] line only; no line after it, in  *)
(* the same chunk or a later one, adds to them.                            *)
C14_DoneConcludes ==
    /\ cbLog = DeltasOf(UpToDone(lines))
    /\ Placeholder.content = Concat(DeltasOf(UpToDone(lines)))
    /\ pc = "streamRead" => final = Concat(DeltasOf(UpToDone(lines)))
    /\ result # None => TheValue(result).final = Concat(DeltasOf(UpToDone(lines)))

----------------------------------------------------------------------------
(* C15. Event-stream framing never forwards raw text: a decoded line that  *)
(* is not a data: line, or whose payload is not parsable JSON, yields "no  *)
(* content"; the callback's deltas, the placeholder's content and the      *)
(* final text are those of the JSON data: lines alone.                     *)
C15_NoRawForwarding ==
    res.ct = EventStream =>
        /\ \A i \in 1..Len(lines) :
              ~IsJsonDataLine(lines[i]) =>
                  extractDeltaFromSSELine(lines[i]) = NoContent
        /\ cbLog = DeltasOf(SelectSeq(lines, IsJsonDataLine))
        /\ \A i \in 1..Len(cbLog) : \A j \in 1..Len(lines) :
              cbLog[i] # WithoutPrefix(lines[j])
        /\ Placeholder.content = Concat(cbLog)
        /\ pc = "streamRead" => final = Concat(cbLog)
        /\ result # None => TheValue(result).final = Concat(cbLog)

C15_Witness ==
    /\ res.ct = EventStream
    /\ pc = "streamReturn"
    /\ HasLine(<< "oops" >>)
    /\ HasLine(<< DataPrefix, SP, "oops" >>)
    /\ HasLine(<< DataPrefix, SP, JDeltaRiyadh >>)
    /\ cbLog = << << "Riyadh " >> >>
    /\ TheValue(result).final = << "Riyadh " >>

----------------------------------------------------------------------------
(* C16. Plain-text / NDJSON framing forwards raw text: when the response's *)
(* content kind is text/plain or application/x-ndjson, every decoded line  *)
(* that is non-empty and not parsable JSON is delivered verbatim, without  *)
(* an optional data: prefix, as one delta.                                 *)
C16_RawForwarding ==
    res.ct \in { "text/plain", "application/x-ndjson" } =>
        \A i \in 1..Len(lines) :
            (WithoutPrefix(lines[i]) # <<>> /\ ~IsJsonText(WithoutPrefix(lines[i])))
                => \E j \in 1..Len(cbLog) : cbLog[j] = WithoutPrefix(lines[i])

----------------------------------------------------------------------------
(* C17. Frame decoder round trip: whatever the chunks, the emitted lines   *)
(* with a terminator after each, followed by the retained fragment, are    *)
(* the text received so far (terminators written alike); no emitted line   *)
(* holds a terminator, so no character before the last terminator is lost, *)
(* duplicated or moved to another line, and the fragment holds no          *)
(* terminator.                                                             *)
C17_RoundTrip ==
    pc = "streamRead" =>
        /\ Joined(lines) \o Normalised(buffer) = Normalised(wire)
        /\ \A i \in 1..Len(lines) : \A k \in 1..Len(lines[i]) : lines[i][k] # NL
        /\ \A k \in 1..Len(buffer) : buffer[k] # NL

C17_Witness ==
    /\ pc = "streamRead"
    /\ reads = 3
    /\ wire = << DataPrefix, JDeltaHub, CR, NL >>
    /\ lines = << << DataPrefix, JDeltaHub >> >>
    /\ buffer = <<>>
    /\ cbLog = << << "is a hub." >> >>


----------------------------------------------------------------------------
(* C18. The transcript is append-only: every step leaves the message list  *)
(* an extension of what it was, with the same ids and roles in the same    *)
(* order, so no message is ever deleted or reordered; and in every state   *)
(* no two messages share an id.                                            *)
DistinctIds ==
    \A i, j \in 1..Len(messages) : messages[i].id = messages[j].id => i = j

ExtendsTranscript ==
    /\ Len(messages') >= Len(messages)
    /\ \A i \in 1..Len(messages) :
          /\ messages'[i].id = messages[i].id
          /\ messages'[i].role = messages[i].role

C18_AppendOnly == [](DistinctIds) /\ [][ExtendsTranscript]_vars

C18_Witness ==
    /\ Completed
    /\ started = 2
    /\ Len(messages) = 4
    /\ secResult # None
    /\ Placeholder.content = TheValue(secResult).reply
    /\ messages[2].content # <<>>

----------------------------------------------------------------------------
(* C19. Exactly one assistant placeholder per user turn: the transcript is *)
(* a sequence of (user message, assistant message) pairs, one pair per     *)
(* exchange started, the assistant message of a pair being the one created *)
(* in the same call (the next id); while a handler is running, the message *)
(* it fills is the last one, so at most one assistant message, the last,   *)
(* belongs to an exchange in flight.                                       *)
C19_PairedTranscript ==
    /\ Len(messages) = 2 * started
    /\ \A k \in 1..started :
          /\ messages[2 * k - 1].role = "user"
          /\ messages[2 * k].role = "assistant"
          /\ messages[2 * k].id = messages[2 * k - 1].id + 1
    /\ (pc # "idle" \/ loading) =>
          /\ messages # <<>>
          /\ messages[Len(messages)].id = botId
          /\ messages[Len(messages)].role = "assistant"

C19_Witness ==
    /\ pc = "streamRead"
    /\ loading
    /\ started = 2
    /\ Len(messages) = 4
    /\ messages[2].content # <<>>
    /\ messages[4].content # <<>>


----------------------------------------------------------------------------
(* C20. Backend response contract: every 200 response of the POST handler  *)
(* to a non-streaming request is a JSON body with a reply field and, only  *)
(* when at least one citation was found, a non-empty sources list of       *)
(* strings; every success response to a streaming request declares the     *)
(* event-stream content kind; an upstream failure (a non-success status, a *)
(* call that did not complete) is never answered with a success status.    *)
AnsweredPost ==
    /\ bePc = "idle"
    /\ beReq.method = "POST"
    /\ beOut.kind = "response"

SuccessStatus(status) == status >= 200 /\ status < 300

(* The names (filename or display_name) the upstream document lists under *)
(* file_search results                                                     *)
IsCitation(name) ==
    /\ name # ""
    /\ beUp.data # None
    /\ LET items == TheValue(beUp.data).output IN
         \E i \in 1..Len(items) :
             /\ items[i].type = "tool_result"
             /\ items[i].tool_name = "file_search"
             /\ \E k \in 1..Len(items[i].results) :
                   \/ items[i].results[k].filename = Some(name)
                   \/ items[i].results[k].display_name = Some(name)

C20_ResponseContract ==
    /\ (AnsweredPost /\ beOut.status = 200 /\ ~TheValue(beReq.body).stream) =>
          /\ beOut.ct = "application/json"
          /\ ~beOut.piped
          /\ beOut.body.reply # None
          /\ beOut.body.error = None
          /\ beOut.body.sources # None =>
                /\ TheValue(beOut.body.sources) # <<>>
                /\ TheValue(beOut.body.sources) \in Seq(STRING)
                /\ \A i \in 1..Len(TheValue(beOut.body.sources)) :
                      IsCitation(TheValue(beOut.body.sources)[i])
    /\ (AnsweredPost /\ SuccessStatus(beOut.status) /\ beReq.body # None
            /\ TheValue(beReq.body).stream) =>
          /\ beOut.ct = EventStream
          /\ beOut.piped
    /\ (bePc = "idle" /\ beUp.outcome \in { "rejected", "notok", "badjson" }) =>
          ~(beOut.kind = "response" /\ SuccessStatus(beOut.status))

C20_Witness ==
    /\ AnsweredPost
    /\ beOut.status = 200
    /\ ~TheValue(beReq.body).stream
    /\ beUp.outcome = "ok"
    /\ beOut.body.reply = Some(<< "Answer" >>)
    /\ beOut.body.sources = Some(<< "a.pdf", "B notes" >>)


----------------------------------------------------------------------------
(* C21. The placeholder's content is append-only during its exchange: in   *)
(* every step taken while the exchange is in flight (the step that clears  *)
(* the in-flight flag included) the new content of the placeholder has the *)
(* old content as a prefix; non-empty content is never replaced.           *)
IsPrefix(a, b) == Len(a) <= Len(b) /\ SubSeq(b, 1, Len(a)) = a

ContentExtended ==
    (loading /\ botId' = botId) => IsPrefix(Placeholder.content, Placeholder'.content)

C21_ContentAppendOnly == [][ContentExtended]_vars


----------------------------------------------------------------------------
(* C22. End-of-data flush policy: in the step that ends the stream, the    *)
(* retained fragment adds a final delta only if it is by itself a data:    *)
(* line carrying a record with a string delta or text field, and then the  *)
(* delta is that string; any other fragment is discarded: the callback is  *)
(* not called and the final text and the placeholder stay as they were.    *)
RecordOf(line) == JsonParse(SelectSeq(Tail(line), NotWhitespace)[1])

(* The string a well-formed line carries: delta, else text; None if the    *)
(* line is no data: line with a record, or the record has neither          *)
CarriedText(line) ==
    IF ~IsJsonDataLine(line) THEN None
    ELSE IF RecordOf(line).delta # None THEN RecordOf(line).delta
    ELSE RecordOf(line).text

StreamEnds == pc = "streamRead" /\ pc' = "streamReturn"

FlushPolicy ==
    StreamEnds =>
        IF CarriedText(buffer) # None /\ TheValue(CarriedText(buffer)) # <<>>
        THEN /\ cbLog' = Append(cbLog, TheValue(CarriedText(buffer)))
             /\ TheValue(result').final = final \o TheValue(CarriedText(buffer))
             /\ Placeholder'.content =
                    Placeholder.content \o TheValue(CarriedText(buffer))
        ELSE /\ cbLog' = cbLog
             /\ TheValue(result').final = final
             /\ Placeholder' = Placeholder

C22_FlushPolicy == [][FlushPolicy]_vars

C22_Witness ==
    /\ pc = "streamReturn"
    /\ lines = << << "oops" >>, << DataPrefix, JDeltaHub >> >>
    /\ wire = << "oops", NL, DataPrefix, JDeltaHub >>
    /\ cbLog = << << "is a hub." >> >>
    /\ TheValue(result).final = << "is a hub." >>


----------------------------------------------------------------------------
(* C23. Frame decoder edge cases: a step that reads an empty chunk emits   *)
(* no line and leaves the buffer as it was; a step that reads a chunk      *)
(* without a line terminator emits no line and leaves as buffer the old    *)
(* buffer followed by the chunk; neither calls the callback.               *)
ChunkIsRead == pc = "streamRead" /\ pc' = "streamRead" /\ reads' = reads + 1

(* The chunk a reading step received *)
ChunkRead == SubSeq(wire', Len(wire) + 1, Len(wire'))

HasTerminator(s) == \E k \in 1..Len(s) : s[k] = NL

DecoderEdgeCases ==
    ChunkIsRead =>
        /\ ChunkRead = <<>> =>
              /\ lines' = lines
              /\ buffer' = buffer
              /\ cbLog' = cbLog
        /\ ~HasTerminator(ChunkRead) =>
              /\ lines' = lines
              /\ buffer' = buffer \o ChunkRead
              /\ cbLog' = cbLog

C23_DecoderEdgeCases == [][DecoderEdgeCases]_vars

C23_Witness ==
    /\ pc = "streamRead"
    /\ reads = 3
    /\ wire = << DataPrefix, JDeltaHub, CR >>
    /\ buffer = << DataPrefix, JDeltaHub, CR >>
    /\ lines = <<>>
    /\ cbLog = <<>>


----------------------------------------------------------------------------
(* C24. Field precedence in a structured record: for every decoded data:   *)
(* line whose payload parses as a record, a string delta field is the      *)
(* delta even if a string text field is present; the text field is used    *)
(* only when delta is absent or no string; a record with neither yields no *)
(* content; and the callback gets exactly the non-empty strings so chosen, *)
(* in order.                                                               *)
RECURSIVE ChosenTexts(_)
ChosenTexts(ls) ==
    IF ls = <<>> THEN <<>>
    ELSE (IF CarriedText(Head(ls)) # None /\ TheValue(CarriedText(Head(ls))) # <<>>
          THEN << TheValue(CarriedText(Head(ls))) >>
          ELSE <<>>) \o ChosenTexts(Tail(ls))

C24_FieldPrecedence ==
    /\ \A i \in 1..Len(lines) :
          IsJsonDataLine(lines[i]) =>
              LET rec == RecordOf(lines[i])
                  got == extractDeltaFromSSELine(lines[i])
              IN  /\ rec.delta # None => got = rec.delta
                  /\ (rec.delta = None /\ rec.text # None) => got = rec.text
                  /\ (rec.delta = None /\ rec.text = None) => got = NoContent
    /\ cbLog = ChosenTexts(lines)

C24_Witness ==
    /\ pc = "streamRead"
    /\ HasLine(<< DataPrefix, SP, JBoth >>)
    /\ HasLine(<< DataPrefix, SP, JSourcesOnly >>)
    /\ HasLine(<< DataPrefix, SP, JDeltaNumber >>)
    /\ cbLog = << << "D" >>, << "T2" >> >>
    /\ Placeholder.content = << "D", "T2" >>


----------------------------------------------------------------------------
(* C25. Backend request validation: a method other than GET or POST is     *)
(* answered 405; a POST with a missing or too short API key 500, whatever  *)
(* its body; a POST with a usable key whose body is not JSON 400; a POST   *)
(* with a usable key and a JSON body whose message is missing, no string   *)
(* or blank 400; in each case no request is sent upstream.                 *)
KeyUsable == beReq.key # None /\ TheValue(beReq.key) >= MinKeyLength

NoMessage ==
    \/ TheValue(beReq.body).message = None
    \/ Blank(TheValue(TheValue(beReq.body).message))

Refused(status) ==
    /\ bePc = "idle"
    /\ beOut.kind = "response"
    /\ beOut.status = status
    /\ beOut.body.error # None
    /\ beUp = NoUpstream

C25_RequestValidation ==
    /\ beReq.method \in Methods \ { "GET", "POST" } => Refused(405)
    /\ (beReq.method = "POST" /\ ~KeyUsable) => Refused(500)
    /\ (beReq.method = "POST" /\ KeyUsable /\ beReq.body = None) => Refused(400)
    /\ (beReq.method = "POST" /\ KeyUsable /\ beReq.body # None /\ NoMessage)
          => Refused(400)

C25_Witness ==
    /\ beReq.method = "POST"
    /\ beReq.key = Some(MinKeyLength - 1)
    /\ beReq.body = None
    /\ Refused(500)


----------------------------------------------------------------------------
(* C26. End-to-end degradation: when the upstream completion API answers   *)
(* a request with a non-success status, the proxy answers it with 502,     *)
(* the streaming request and the secondary one alike; the component        *)
(* receives the status the proxy answered with; and when both requests of  *)
(* an exchange were answered that way, the exchange ends with the          *)
(* placeholder showing the fixed offline message, the in-flight flag       *)
(* cleared, and no part of the upstream error body in the transcript.      *)
UpstreamAnswered == bePc = "idle" /\ beUp.outcome \in { "ok", "notok", "badjson" }

UpstreamFailed == UpstreamAnswered /\ beUp.status \notin 200..299

UpstreamTexts == { UpstreamErrorText[1], "OpenAI upstream error" }

NoUpstreamTextShown ==
    \A i \in 1..Len(messages) :
        \A j \in 1..Len(messages[i].content) :
            messages[i].content[j] \notin UpstreamTexts

BothAnswered502 ==
    /\ res.received
    /\ res.status = 502
    /\ Len(requests) = 2
    /\ Taken
    /\ UpstreamFailed
    /\ sec.outcome = "notok"

C26_EndToEndDegradation ==
    /\ UpstreamFailed =>
          /\ beOut.kind = "response"
          /\ beOut.status = 502
          /\ beOut.body.reply = None
    /\ (Taken /\ bePc = "idle" /\ beOut.kind = "response" /\ res.received
            /\ Len(requests) = 1)
          => res.status = beOut.status
    /\ (Taken /\ bePc = "idle" /\ beOut.kind = "response" /\ Len(requests) = 2
            /\ sec.outcome \notin { "none", "neterr" })
          => (sec.outcome = "notok" <=> beOut.status \notin 200..299)
    /\ (pc = "idle" /\ BothAnswered502) =>
          /\ Placeholder.content = OfflineMessage
          /\ ~loading
          /\ NoUpstreamTextShown

C26_Witness ==
    /\ pc = "idle"
    /\ BothAnswered502
    /\ beUp.status = 429
    /\ ~TheValue(beUp.payload).stream
    /\ beOut.body.detail = Some(UpstreamErrorText)
    /\ thrown = Some(ProxyError(502))
    /\ Placeholder.content = OfflineMessage

----------------------------------------------------------------------------
(* C27. The secondary request carries the same prompt text and the same    *)
(* grounded flag as the streaming request of the same exchange and does    *)
(* not carry the streaming flag; the prompt sent in both is the trimmed    *)
(* input that was appended as the user message.                            *)
UserMessage == TheValue(Find(messages, botId - 1))

SameRequestShape ==
    /\ started' = started + 1 =>
          /\ requests' =
                << [message |-> Trim(input), stream |-> TRUE, strict |-> grounded] >>
          /\ UserMessage'.role = "user"
          /\ UserMessage'.content = Trim(input)
    /\ \A i \in 1..Len(requests) :
          /\ requests[i].stream <=> i = 1
          /\ requests[i].message = requests[1].message
          /\ requests[i].strict = requests[1].strict
          /\ requests[i].message = UserMessage.content
    /\ (Len(requests) > 0 /\ Len(requests') >= Len(requests) /\ started' = started)
          => SubSeq(requests', 1, Len(requests)) = requests

C27_SameRequestShape == [][SameRequestShape]_vars

C27_Witness ==
    /\ Len(requests) = 2
    /\ ~requests[2].strict
    /\ grounded
    /\ requests[2].message = << Prompt >>
    /\ input = << SP, Prompt, SP >>


----------------------------------------------------------------------------
(* C28. Chunking independence: the deltas delivered to the callback and    *)
(* the final text depend only on the body received, not on how it was      *)
(* split into chunks: while the body is being read they are those of the   *)
(* complete lines of what has arrived, and when it has ended those of all  *)
(* its lines, whether a split fell inside a line, between the \r and \n of *)
(* a terminator, or between two terminators.                               *)
WholeLines(body) == SplitLines(body)

C28_ChunkingIndependence ==
    /\ pc = "streamRead" =>
          /\ cbLog = DeltasOf(SubSeq(WholeLines(wire), 1, Len(WholeLines(wire)) - 1))
          /\ final = Concat(cbLog)
    /\ pc = "streamReturn" =>
          /\ cbLog = DeltasOf(WholeLines(wire))
          /\ TheValue(result).final = Concat(cbLog)
    /\ pc \in { "streamRead", "streamReturn" } => Placeholder.content = Concat(cbLog)

C28_Witness ==
    /\ pc = "streamRead"
    /\ reads = 3
    /\ wire = << DataPrefix, JDeltaHub, CR, NL >>
    /\ buffer = <<>>
    /\ Len(cbLog) = 1


----------------------------------------------------------------------------
(* C29. No permanently empty reply: whenever an exchange has completed     *)
(* (the handler has returned and the in-flight flag is cleared), the       *)
(* content of its assistant placeholder is not empty, whatever the stream  *)
(* session and the secondary call did.                                     *)
C29_NoEmptyReply ==
    (started > 0 /\ pc = "idle" /\ ~loading) => Placeholder.content # <<>>


----------------------------------------------------------------------------
(* C30. Frame of an exchange: no step removes or reorders messages or      *)
(* changes a message's id or role; a step that changes the content or the  *)
(* sources of a message changes only the message whose id is the           *)
(* placeholder id of the exchange in progress; the step that starts an     *)
(* exchange leaves every earlier message as it was. Hence every user       *)
(* message and every assistant message of an earlier exchange keeps its    *)
(* role, content and sources through all later exchanges.                  *)
FramePreserved ==
    /\ Len(messages') >= Len(messages)
    /\ \A i \in 1..Len(messages) :
          /\ messages'[i].id = messages[i].id
          /\ messages'[i].role = messages[i].role
          /\ messages[i].id # botId => messages'[i] = messages[i]
          /\ messages[i].role = "user" => messages'[i] = messages[i]
    /\ botId' # botId => SubSeq(messages', 1, Len(messages)) = messages

C30_ExchangeFrame == [][FramePreserved]_vars

C30_Witness ==
    /\ started = 2
    /\ Len(messages) = 4
    /\ messages[2].content # <<>>
    /\ messages[4].content # <<>>
    /\ messages[4].content # messages[2].content
    /\ messages[4].sources # None
    /\ messages[2].sources = None


----------------------------------------------------------------------------
(* C31. Accumulator consistency: in every stream session that returned     *)
(* normally over a streaming content kind, the returned final text is the  *)
(* concatenation, in order, of exactly the strings passed to the delta     *)
(* callback; hence when at least one delta was observed the placeholder's  *)
(* content equals that final text, until the exchange's record is dropped. *)
RECURSIVE InOrder(_)
InOrder(ss) ==
    IF Len(ss) = 0 THEN <<>>
    ELSE InOrder(SubSeq(ss, 1, Len(ss) - 1)) \o ss[Len(ss)]

ReturnedOverStream == result # None /\ res.received /\ res.streaming

C31_AccumulatorConsistency ==
    ReturnedOverStream =>
        /\ TheValue(result).final = InOrder(cbLog)
        /\ cbLog # <<>> => Placeholder.content = TheValue(result).final

C31_Witness ==
    /\ pc = "idle"
    /\ ReturnedOverStream
    /\ Len(cbLog) = 2
    /\ cbLog[1] # cbLog[2]
    /\ buffer = <<>>
    /\ wire[Len(wire)] # NL
    /\ Placeholder.content = cbLog[1] \o cbLog[2]


----------------------------------------------------------------------------
(* C32. Request budget per exchange: a rejected call of handleSend issues  *)
(* no request; an accepted one issues exactly one streaming request; the   *)
(* requests of an exchange are that streaming request followed by at most  *)
(* one secondary, non-streaming request, on every path (the fallback after *)
(* a normal return and the one in the catch block together run at most     *)
(* once); requests already issued are never withdrawn during the exchange. *)
WithinBudget ==
    /\ started = 0 => requests = <<>>
    /\ started > 0 =>
          /\ Cardinality({ i \in 1..Len(requests) : requests[i].stream }) = 1
          /\ Cardinality({ i \in 1..Len(requests) : ~requests[i].stream }) <= 1
          /\ requests[1].stream

RequestBudget ==
    /\ WithinBudget
    /\ WithinBudget'
    /\ lastCall' = "rejected" => requests' = requests
    /\ lastCall' = "accepted" => Len(requests') = 1
    /\ lastCall' = "none" =>
          /\ Len(requests') \in { Len(requests), Len(requests) + 1 }
          /\ SubSeq(requests', 1, Len(requests)) = requests

C32_RequestBudget == [][RequestBudget]_vars

C32_Witness ==
    /\ pc = "fbJson"
    /\ started = 2
    /\ via = "try"
    /\ Len(requests) = 2
    /\ ~requests[2].stream
    /\ lastCall = "rejected"

====
